---- MODULE Spec2Model ----
(***************************************************************************)
(* A model of markov_model.py: the MarkovModel data type of order k.       *)
(*                                                                         *)
(* Python strings are sequences of one-character strings; a character is a *)
(* string of length one, as in Python.  A dict is the sequence of its      *)
(* entries in insertion order, which is the order keys() enumerates.       *)
(* The likelihoods of replace_unknown are kept as exact fractions.         *)
(***************************************************************************)
EXTENDS Integers, Sequences, FiniteSets, TLC

VARIABLES pc, text, k, st, op, arg, ret, newtxt, corrupted, i

vars == <<pc, text, k, st, op, arg, ret, newtxt, corrupted, i>>

(* ---- bounds of the exploration ---------------------------------------- *)
MaxK == 2          \* orders 1..MaxK
MaxTextLen == 4    \* corpus length of the query and generator runs
MaxCorpusLen == 3  \* corpus length of the repair runs
MaxStrLen == 5     \* length of a string handed to replace_unknown
MaxT == 4          \* length asked of gen

Alphabet == {"a", "b", "~"}

Strings(lo, hi) == UNION {[1..n -> Alphabet] : n \in lo..hi}

Min(x, y) == IF x < y THEN x ELSE y
Max(x, y) == IF x < y THEN y ELSE x

(* ---- Python string primitives ----------------------------------------- *)

\* one end of a slice, clamped as Python clamps it
SliceIndex(n, j) == IF j < 0 THEN Max(j + n, 0) ELSE Min(j, n)

\* s[lo:hi]
Slice(s, lo, hi) ==
    LET a == SliceIndex(Len(s), lo)
        b == SliceIndex(Len(s), hi)
    IN  IF a < b THEN SubSeq(s, a + 1, b) ELSE <<>>

\* a faulty Find: the last c of s instead of the first
FindLast(s, c) ==
    IF \E j \in 1..Len(s) : <<s[j]>> = c
    THEN CHOOSE j \in 1..Len(s) :
            /\ <<s[j]>> = c
            /\ \A l \in (j + 1)..Len(s) : <<s[l]>> # c
    ELSE 0

\* where s.replace(c, ..., 1) finds c, as a 1-based index; 0 when absent
Find(s, c) ==
    IF \E j \in 1..Len(s) : <<s[j]>> = c
    THEN CHOOSE j \in 1..Len(s) :
            /\ <<s[j]>> = c
            /\ \A l \in 1..(j - 1) : <<s[l]>> # c
    ELSE 0

\* a faulty ReplaceFirst: off by one, it overwrites the symbol before the '~'
ReplaceBeforeFirst(s, new) ==
    LET j == Find(s, <<"~">>)
    IN  IF j <= 1 THEN s
        ELSE SubSeq(s, 1, j - 2) \o new \o SubSeq(s, j, Len(s))

\* s.replace('~', new, 1): the first '~' of s, wherever it is, becomes new
ReplaceFirst(s, new) ==
    LET j == Find(s, <<"~">>)
    IN  IF j = 0 THEN s
        ELSE SubSeq(s, 1, j - 1) \o new \o SubSeq(s, j + 1, Len(s))

(* ---- dict primitives --------------------------------------------------- *)

\* key in d
Has(d, key) == \E j \in 1..Len(d) : d[j].key = key

IndexOf(d, key) == CHOOSE j \in 1..Len(d) : d[j].key = key

\* d[key], for a key that is in d
Get(d, key) == d[IndexOf(d, key)].val

\* list(d.keys())
Keys(d) == [j \in 1..Len(d) |-> d[j].key]

\* sum(d.values())
RECURSIVE SumValues(_)
SumValues(d) == IF d = <<>> THEN 0 ELSE d[1].val + SumValues(Tail(d))

(* ---- __init__ ---------------------------------------------------------- *)

\* a faulty Extend: the text is not wrapped around
ExtendNoWrap(txt, kk) == txt

\* newtxt = text + text[:k]

Extend(txt, kk) == txt \o Slice(txt, 0, kk)

\* a faulty Count: a successor seen again is not counted again
CountOnce(t, hold, c) ==
    IF Has(t, hold)
    THEN IF Has(Get(t, hold), c)
         THEN t
         ELSE [t EXCEPT ![IndexOf(t, hold)].val =
                           Append(@, [key |-> c, val |-> 1])]
    ELSE Append(t, [key |-> hold, val |-> <<[key |-> c, val |-> 1]>>])

\* the if/else of the loop body: count one more c after hold
Count(t, hold, c) ==
    IF Has(t, hold)
    THEN IF Has(Get(t, hold), c)
         THEN [t EXCEPT ![IndexOf(t, hold)].val[IndexOf(Get(t, hold), c)].val
                           = @ + 1]
         ELSE [t EXCEPT ![IndexOf(t, hold)].val =
                           Append(@, [key |-> c, val |-> 1])]
    ELSE Append(t, [key |-> hold, val |-> <<[key |-> c, val |-> 1]>>])

\* a faulty Build: the loop stops one start position early
RECURSIVE BuildShort(_, _, _, _)
BuildShort(ntxt, kk, count, t) ==
    IF count >= Len(ntxt) - kk - 1 THEN t
    ELSE BuildShort(ntxt, kk, count + 1,
                    Count(t, Slice(ntxt, count, kk + count),
                             Slice(ntxt, kk + count, kk + count + 1)))

\* for count in range(0, size-k)
RECURSIVE Build(_, _, _, _)
Build(ntxt, kk, count, t) ==
    IF count >= Len(ntxt) - kk THEN t
    ELSE Build(ntxt, kk, count + 1,
               Count(t, Slice(ntxt, count, kk + count),
                        Slice(ntxt, kk + count, kk + count + 1)))

\* self._st after MarkovModel(text, k)
MarkovModel(txt, kk) == Build(Extend(txt, kk), kk, 0, <<>>)

(* ---- results of a call -------------------------------------------------- *)

Return(v) == [err |-> "none", val |-> v]
Raise(e) == [err |-> e, val |-> <<>>]
NoCall == [err |-> "none", val |-> <<>>]
Args(s, c, T) == [s |-> s, c |-> c, T |-> T]

(* ---- order, kgram_freq, char_freq ---------------------------------------- *)

order(kk) == Return(kk)

\* a faulty kgram_freq: the length of kgram is not tested
kgram_freq_unchecked(t, kk, kgram) ==
    IF Has(t, kgram) THEN Return(SumValues(Get(t, kgram))) ELSE Return(0)

kgram_freq(t, kk, kgram) ==
    IF kk # Len(kgram) THEN Raise("ValueError")
    ELSE IF Has(t, kgram) THEN Return(SumValues(Get(t, kgram)))
    ELSE Return(0)

char_freq(t, kk, kgram, c) ==
    IF kk # Len(kgram) THEN Raise("ValueError")
    ELSE IF ~Has(t, kgram) \/ ~Has(Get(t, kgram), c) THEN Return(0)
    ELSE Return(Get(Get(t, kgram), c))

(* ---- rand ---------------------------------------------------------------- *)

\* the outcomes of random.choice(hold): the positions of hold, equally likely.
\* The draw of stdrandom.discrete(char_num) is stored in char and hold2 and
\* never read again, so it has no part in the result.
RandomChoices(t, kk, kgram) ==
    IF kk = Len(kgram) /\ Has(t, kgram) THEN 1..Len(Get(t, kgram)) ELSE {1}

rand(t, kk, kgram, r) ==
    IF kk # Len(kgram) THEN Raise("ValueError")
    ELSE IF ~Has(t, kgram) THEN Raise("ValueError")
    ELSE Return(Keys(Get(t, kgram))[r])

(* ---- replace_unknown ------------------------------------------------------ *)

One == [num |-> 1, den |-> 1]
Zero == [num |-> 0, den |-> 1]
Times(p, n, d) == [num |-> p.num * n, den |-> p.den * d]
Less(x, y) == x.num * y.den < y.num * x.den

\* a.index(max(a)): the first position that holds the maximum
argmax(a) ==
    CHOOSE j \in 1..Len(a) :
        /\ \A l \in 1..Len(a) : ~Less(a[j], a[l])
        /\ \A l \in 1..(j - 1) : Less(a[l], a[j])

\* for b in range(self._k+1): ... p *= cal1 / cal2, or p = 0 and break
RECURSIVE ProbLoop(_, _, _, _, _)
ProbLoop(t, kk, ntxt, b, p) ==
    IF b >= kk + 1 THEN p
    ELSE LET sub == Slice(ntxt, b, b - kk - 1)
         IN  IF Has(t, sub)
             THEN LET cal1 == char_freq(t, kk, sub,
                                        Slice(ntxt, kk + b, kk + b + 1)).val
                      cal2 == kgram_freq(t, kk, sub).val
                  IN  ProbLoop(t, kk, ntxt, b + 1, Times(p, cal1, cal2))
             ELSE Zero

\* the list prob once the loop over keyhold is done
Prob(t, kk, context, keyhold) ==
    [a \in 1..Len(keyhold) |->
        ProbLoop(t, kk, ReplaceFirst(context, keyhold[a]), 0, One)]

\* a faulty ReplaceAt: a marker whose context is no key is left as it is
ReplaceAtSkipMissing(t, kk, cor, ii) ==
    IF <<cor[ii + 1]>> # <<"~">> \/ ~Has(t, Slice(cor, ii - kk, ii))
    THEN Return(cor)
    ELSE LET kgram_b == Slice(cor, ii - kk, ii)
             kgram_a == Slice(cor, ii + 1, ii + kk + 1)
             context == kgram_b \o <<"~">> \o kgram_a
             keyhold == Keys(Get(t, kgram_b))
             prob == Prob(t, kk, context, keyhold)
         IN  Return(ReplaceFirst(cor, keyhold[argmax(prob)]))

\* the body of "for i in range(size)" at index ii (0-based) of cor
ReplaceAt(t, kk, cor, ii) ==
    IF <<cor[ii + 1]>> # <<"~">> THEN Return(cor)
    ELSE LET kgram_b == Slice(cor, ii - kk, ii)
             kgram_a == Slice(cor, ii + 1, ii + kk + 1)
             context == kgram_b \o <<"~">> \o kgram_a
         IN  IF ~Has(t, kgram_b) THEN Raise("KeyError")
             ELSE LET keyhold == Keys(Get(t, kgram_b))
                      prob == Prob(t, kk, context, keyhold)
                  IN  Return(ReplaceFirst(cor, keyhold[argmax(prob)]))

(* ---- the state machine ----------------------------------------------------- *)

Init ==
    /\ pc = "new"
    /\ text = <<>>
    /\ k = 0
    /\ st = <<>>
    /\ op = "none"
    /\ arg = Args(<<>>, <<>>, 0)
    /\ ret = NoCall
    /\ newtxt = <<>>
    /\ corrupted = <<>>
    /\ i = 0

\* model = MarkovModel(text, k)
Construct(txt, kk) ==
    /\ pc = "new"
    /\ pc' = "ready"
    /\ text' = txt
    /\ k' = kk
    /\ st' = MarkovModel(txt, kk)
    /\ UNCHANGED <<op, arg, ret, newtxt, corrupted, i>>

Call(name, a, r) ==
    /\ pc = "ready"
    /\ pc' = "done"
    /\ op' = name
    /\ arg' = a
    /\ ret' = r
    /\ UNCHANGED <<text, k, st, newtxt, corrupted, i>>

Order == Call("order", Args(<<>>, <<>>, 0), order(k))

KgramFreq(kgram) ==
    Call("kgram_freq", Args(kgram, <<>>, 0), kgram_freq(st, k, kgram))

CharFreq(kgram, c) ==
    Call("char_freq", Args(kgram, c, 0), char_freq(st, k, kgram, c))

Rand(kgram) ==
    \E r \in RandomChoices(st, k, kgram) :
        Call("rand", Args(kgram, <<>>, 0), rand(st, k, kgram, r))

\* gen: newtxt = kgram, before the loop
GenCall(kgram, T) ==
    /\ pc = "ready"
    /\ pc' = "gen"
    /\ op' = "gen"
    /\ arg' = Args(kgram, <<>>, T)
    /\ newtxt' = kgram
    /\ i' = 0
    /\ UNCHANGED <<text, k, st, ret, corrupted>>

\* gen: one pass of "for i in range(T-self._k)"
GenStep ==
    /\ pc = "gen"
    /\ i < arg.T - k
    /\ \E r \in RandomChoices(st, k, Slice(newtxt, i, k + i)) :
          LET res == rand(st, k, Slice(newtxt, i, k + i), r)
          IN  IF res.err # "none"
              THEN /\ pc' = "done"
                   /\ ret' = res
                   /\ UNCHANGED <<newtxt, i>>
              ELSE /\ newtxt' = newtxt \o res.val
                   /\ i' = i + 1
                   /\ UNCHANGED <<pc, ret>>
    /\ UNCHANGED <<text, k, st, op, arg, corrupted>>

\* gen: return newtxt
GenReturn ==
    /\ pc = "gen"
    /\ i >= arg.T - k
    /\ pc' = "done"
    /\ ret' = Return(newtxt)
    /\ UNCHANGED <<text, k, st, op, arg, newtxt, corrupted, i>>

\* replace_unknown: before the loop
ReplaceCall(s) ==
    /\ pc = "ready"
    /\ pc' = "replace"
    /\ op' = "replace_unknown"
    /\ arg' = Args(s, <<>>, 0)
    /\ corrupted' = s
    /\ i' = 0
    /\ UNCHANGED <<text, k, st, ret, newtxt>>

\* replace_unknown: one pass of "for i in range(size)"
ReplaceStep ==
    /\ pc = "replace"
    /\ i < Len(arg.s)
    /\ LET res == ReplaceAt(st, k, corrupted, i)
       IN  IF res.err # "none"
           THEN /\ pc' = "done"
                /\ ret' = res
                /\ UNCHANGED <<corrupted, i>>
           ELSE /\ corrupted' = res.val
                /\ i' = i + 1
                /\ UNCHANGED <<pc, ret>>
    /\ UNCHANGED <<text, k, st, op, arg, newtxt>>

\* replace_unknown: return corrupted
ReplaceReturn ==
    /\ pc = "replace"
    /\ i >= Len(arg.s)
    /\ pc' = "done"
    /\ ret' = Return(corrupted)
    /\ UNCHANGED <<text, k, st, op, arg, newtxt, corrupted, i>>

\* the inputs of a call are drawn only where a call can be made
Queries ==
    \/ Order
    \/ /\ pc = "ready"
       /\ \E kgram \in Strings(0, MaxK + 1) : KgramFreq(kgram)
    \/ /\ pc = "ready"
       /\ \E kgram \in Strings(0, MaxK + 1), c \in Strings(1, 1) :
             CharFreq(kgram, c)
    \/ /\ pc = "ready"
       /\ \E kgram \in Strings(0, MaxK + 1) : Rand(kgram)

Generation ==
    \/ /\ pc = "ready"
       /\ \E kgram \in Strings(0, MaxK + 1), T \in 0..MaxT : GenCall(kgram, T)
    \/ GenStep
    \/ GenReturn

Repair ==
    \/ /\ pc = "ready"
       /\ \E s \in Strings(0, MaxStrLen) : ReplaceCall(s)
    \/ ReplaceStep
    \/ ReplaceReturn

\* a model is built, then queried or asked to generate
Next ==
    \/ /\ pc = "new"
       /\ \E txt \in Strings(0, MaxTextLen), kk \in 1..MaxK : Construct(txt, kk)
    \/ Queries
    \/ Generation

Spec == Init /\ [][Next]_vars

\* a model is built, then asked to repair a string
NextRepair ==
    \/ /\ pc = "new"
       /\ \E txt \in Strings(0, MaxCorpusLen), kk \in 1..MaxK :
             Construct(txt, kk)
    \/ Repair

SpecRepair == Init /\ [][NextRepair]_vars

(* ---- what the properties speak of ------------------------------------------- *)

KeySet(d) == {d[j].key : j \in 1..Len(d)}

NoMarker(s) == \A j \in 1..Len(s) : s[j] # "~"

\* the symbol at 0-based position p of the corpus read as a circle
Circular(txt, p) == txt[(p % Len(txt)) + 1]

\* the start positions at which g, followed by c, is read on the circle
Occurrences(txt, g, c) ==
    {p \in 0..(Len(txt) - 1) :
        /\ \A j \in 1..Len(g) : Circular(txt, p + j - 1) = g[j]
        /\ <<Circular(txt, p + Len(g))>> = c}

\* C1: for a text at least as long as k, char_freq(g, c) is the number of
\* start positions of the circular text where g is followed by c; the keys of
\* the table are exactly the g followed by something; no stored count is 0.
CircularFrequencyTable ==
    (pc = "ready" /\ Len(text) >= k) =>
        /\ \A g \in Strings(k, k), c \in Strings(1, 1) :
              char_freq(st, k, g, c) = Return(Cardinality(Occurrences(text, g, c)))
        /\ KeySet(st) = {g \in Strings(k, k) :
                            \E c \in Strings(1, 1) : Occurrences(text, g, c) # {}}
        /\ \A j \in 1..Len(st) : \A l \in 1..Len(st[j].val) : st[j].val[l].val > 0

\* a table whose counts wrap around the end of the text and exceed one
CircularFrequencyTableWitness ==
    /\ pc = "ready"
    /\ text = <<"a", "b", "a", "a">>
    /\ k = 2
    /\ st = << [key |-> <<"a", "b">>, val |-> <<[key |-> <<"a">>, val |-> 1]>>],
               [key |-> <<"b", "a">>, val |-> <<[key |-> <<"a">>, val |-> 1]>>],
               [key |-> <<"a", "a">>, val |-> <<[key |-> <<"a">>, val |-> 1],
                                                [key |-> <<"b">>, val |-> 1]>>] >>

RECURSIVE SumKgramFreq(_, _, _)
SumKgramFreq(t, kk, keys) ==
    IF keys = <<>> THEN 0
    ELSE kgram_freq(t, kk, Head(keys)).val + SumKgramFreq(t, kk, Tail(keys))

\* C5: for a text of length n >= k, the kgram_freq of the keys of the table
\* add up to n.
CircularCountingInvariant ==
    (pc = "ready" /\ Len(text) >= k) =>
        SumKgramFreq(st, k, Keys(st)) = Len(text)

\* a table of several keys, built over the wrap-around
CircularCountingWitness ==
    /\ pc = "ready"
    /\ k = 2
    /\ Len(text) = 3
    /\ Len(st) = 3
    /\ SumKgramFreq(st, k, Keys(st)) = 3

\* C7: a text shorter than the order yields no model.
ConstructionRejectsShortText ==
    pc # "new" => Len(text) >= k

\* C8: kgram_freq and char_freq raise on a k-gram whose length is not k, and
\* on a k-gram of length k they return, 0 when the k-gram (or c under it) is unseen.
LengthCheckedQueries ==
    (pc = "done" /\ op \in {"kgram_freq", "char_freq"}) =>
        IF Len(arg.s) # k
        THEN ret.err = "ValueError"
        ELSE /\ ret.err = "none"
             /\ arg.s \notin KeySet(st) => ret.val = 0
             /\ (/\ op = "char_freq"
                 /\ arg.s \in KeySet(st)
                 /\ \A j \in 1..Len(st) :
                       st[j].key = arg.s => arg.c \notin KeySet(st[j].val))
                => ret.val = 0

\* a query with a k-gram one symbol longer than a key of the table
LengthCheckedQueriesWitness ==
    /\ pc = "done"
    /\ op = "kgram_freq"
    /\ Len(arg.s) = k + 1
    /\ SubSeq(arg.s, 1, k) \in KeySet(st)
    /\ ret.err = "ValueError"

\* C3: rand(g) returns c with probability char_freq(g, c) / kgram_freq(g):
\* the share of the random source's outcomes that give c is that fraction.
RandIsFrequencyWeighted ==
    (pc = "done" /\ op = "rand" /\ ret.err = "none") =>
        LET outcomes == RandomChoices(st, k, arg.s)
            giving == {r \in outcomes : rand(st, k, arg.s, r) = ret}
        IN  Cardinality(giving) * kgram_freq(st, k, arg.s).val
              = char_freq(st, k, arg.s, ret.val).val * Cardinality(outcomes)

\* C4: gen(g, T), for a key g of a model of a text at least as long as k and
\* T >= k, never raises: each trailing k-gram it hands to rand is a key; its
\* result has length T and starts with g.
GenReturnsLengthT ==
    (/\ op = "gen"
     /\ Len(text) >= k
     /\ arg.s \in KeySet(st)
     /\ arg.T >= k) =>
        /\ ret.err = "none"
        /\ pc = "gen" =>
              /\ Len(newtxt) = k + i
              /\ SubSeq(newtxt, Len(newtxt) - k + 1, Len(newtxt)) \in KeySet(st)
        /\ pc = "done" =>
              /\ Len(ret.val) = arg.T
              /\ SubSeq(ret.val, 1, k) = arg.s

\* a generated string longer than its seed, ending in another symbol than
\* its seed does
GenReturnsLengthTWitness ==
    /\ pc = "done"
    /\ op = "gen"
    /\ ret.err = "none"
    /\ arg.s \in KeySet(st)
    /\ k = 2
    /\ arg.T = 4
    /\ Len(ret.val) = 4
    /\ ret.val[4] # ret.val[2]

(* ---- replace_unknown ---------------------------------------------------------- *)

\* the working string holds a marker at the position the loop is at
AtMarker == pc = "replace" /\ i < Len(arg.s) /\ corrupted[i + 1] = "~"

\* the k symbols before the position the loop is at, when there are k
HasBefore == i >= k
Before == SubSeq(corrupted, i - k + 1, i)
\* the symbols after it, k of them unless the string ends sooner
After == SubSeq(corrupted, i + 2, Min(i + 1 + k, Len(corrupted)))

\* the product over b in 0..k of char_freq(W[b..b+k-1], W[b+k]) /
\* kgram_freq(W[b..b+k-1]); 0 when a sub-window is absent from the table (or
\* from W)
RECURSIVE JointLikelihood(_, _)
JointLikelihood(W, b) ==
    IF b > k THEN One
    ELSE IF b + k + 1 > Len(W) THEN Zero
    ELSE IF SubSeq(W, b + 1, b + k) \notin KeySet(st) THEN Zero
    ELSE Times(JointLikelihood(W, b + 1),
               char_freq(st, k, SubSeq(W, b + 1, b + k), <<W[b + k + 1]>>).val,
               kgram_freq(st, k, SubSeq(W, b + 1, b + k)).val)

Score(c) == JointLikelihood(Before \o c \o After, 0)

\* where c was first seen after g in the circular reading of the corpus
FirstObserved(g, c) ==
    CHOOSE p \in Occurrences(text, g, c) :
        \A q \in Occurrences(text, g, c) : p <= q

\* the successors of the k symbols before the marker, in first-observed order
Candidates == Keys(Get(st, Before))

\* the candidate of greatest score, the earliest of them
Best ==
    LET n == CHOOSE j \in 1..Len(Candidates) :
                /\ \A l \in 1..Len(Candidates) :
                      ~Less(Score(Candidates[j]), Score(Candidates[l]))
                /\ \A l \in 1..(j - 1) :
                      Less(Score(Candidates[l]), Score(Candidates[j]))
    IN  Candidates[n]

\* C2: at a marker at position i whose k preceding symbols are a key, the
\* symbol written at i is the successor of those symbols of greatest joint
\* likelihood, the earliest one in first-observed order among equals.
MaximumLikelihoodRepair ==
    [][(AtMarker /\ HasBefore /\ Before \in KeySet(st)) =>
          /\ Len(text) >= k =>
                \A a, b \in 1..Len(Candidates) :
                    a < b => FirstObserved(Before, Candidates[a])
                               < FirstObserved(Before, Candidates[b])
          /\ pc' = "replace"
          /\ corrupted' = [corrupted EXCEPT ![i + 1] = Best[1]]]_vars

\* The rule of C2 on a corpus that holds no marker, where the first '~' of
\* the working string is the one at position i.
MaximumLikelihoodRepairOfMarkerFreeCorpus ==
    [][(AtMarker /\ HasBefore /\ Before \in KeySet(st) /\ NoMarker(text)) =>
          /\ Len(text) >= k =>
                \A a, b \in 1..Len(Candidates) :
                    a < b => FirstObserved(Before, Candidates[a])
                               < FirstObserved(Before, Candidates[b])
          /\ pc' = "replace"
          /\ corrupted' = [corrupted EXCEPT ![i + 1] = Best[1]]]_vars

\* C6 as stated: a string replace_unknown returns holds no marker, and
\* every position the loop has passed holds a symbol that is no marker.
EveryMarkerResolved ==
    (op = "replace_unknown") =>
        /\ \A j \in 1..Min(i, Len(corrupted)) : corrupted[j] # "~"
        /\ (pc = "done" /\ ret.err = "none") => NoMarker(ret.val)

\* C6: when the corpus holds no marker, a string replace_unknown returns
\* holds no marker: every position the loop has passed holds a symbol that
\* is no marker, and the string returned is that working string.
EveryMarkerResolvedOfMarkerFreeCorpus ==
    (op = "replace_unknown" /\ NoMarker(text)) =>
        /\ \A j \in 1..Min(i, Len(corrupted)) : corrupted[j] # "~"
        /\ (pc = "done" /\ ret.err = "none") =>
              /\ ret.val = corrupted
              /\ NoMarker(ret.val)

\* a returned string in which two markers were filled
EveryMarkerResolvedWitness ==
    /\ pc = "done"
    /\ op = "replace_unknown"
    /\ ret.err = "none"
    /\ NoMarker(text)
    /\ Cardinality({j \in 1..Len(arg.s) : arg.s[j] = "~"}) = 2
    /\ NoMarker(ret.val)

\* C9: at a marker whose k preceding symbols are not a key of the table, or
\* are fewer than k, the call fails and returns no string.
MissingContextAborts ==
    [][(AtMarker /\ ~(HasBefore /\ Before \in KeySet(st))) =>
          /\ pc' = "done"
          /\ ret'.err = "KeyError"]_vars

\* a call that failed at a later marker after it had filled an earlier one
MissingContextAbortsWitness ==
    /\ pc = "done"
    /\ op = "replace_unknown"
    /\ ret.err = "KeyError"
    /\ i >= k
    /\ corrupted # arg.s

\* C10: replace_unknown keeps the length of s and every symbol of s that is
\* no marker, returns s itself when s holds no marker, and leaves the table
\* as it was.
OnlyMarkersChange ==
    [][(pc = "replace") =>
          /\ st' = st
          /\ Len(corrupted') = Len(arg.s)
          /\ \A j \in 1..Len(arg.s) : arg.s[j] # "~" => corrupted'[j] = arg.s[j]
          /\ (pc' = "done" /\ ret'.err = "none") =>
                /\ Len(ret'.val) = Len(arg.s)
                /\ \A j \in 1..Len(arg.s) :
                      arg.s[j] # "~" => ret'.val[j] = arg.s[j]
                /\ NoMarker(arg.s) => ret'.val = arg.s]_vars

\* a returned string that differs from s, and one that does not
OnlyMarkersChangeWitness ==
    /\ pc = "done"
    /\ op = "replace_unknown"
    /\ ret.err = "none"
    /\ ret.val # arg.s
    /\ \E j \in 1..Len(arg.s) : arg.s[j] # "~"

====
